---- MODULE Spec2Model ----
(***************************************************************************)
(* A model of GeoCartConversion.py: the Cartesian -> geodetic conversion   *)
(* xyzllh (with its residual callback fun and the recovery step step3) and *)
(* the closed-form geodetic -> Cartesian conversion llhxyz.                *)
(*                                                                         *)
(* Numbers.  A float is modelled as an extended rational <<n, d>> in       *)
(* lowest terms with d >= 0: d > 0 is the finite value n/d, <<1, 0>> is    *)
(* +inf, <<-1, 0>> is -inf and <<0, 0>> is NaN, with the IEEE rules for    *)
(* the special values (rounding and the sign of zero are not modelled).    *)
(* np.sqrt is exact, so the inputs are drawn from the values whose square  *)
(* roots are rational.  np.arctan(t) * (180/np.pi) is kept as the symbolic *)
(* angle "mult * arctan(tan) degrees", and the height np.sqrt(q), possibly *)
(* negated, as the signed root [neg, sq].                                  *)
(*                                                                         *)
(* scipy.optimize.root is library code: it is modelled by its interface,   *)
(* as an environment that evaluates fun at iterates of its own choice and  *)
(* then hands back an OptimizeResult (x, success).                         *)
(***************************************************************************)
EXTENDS Integers, Sequences, FiniteSets, TLC

\* ------------------------------------------------------------------ bounds

\* Cartesian inputs x, y, z range over -MaxCoord..MaxCoord.
MaxCoord == 4

\* Ellipsoid parameters a, b range over -1..MaxAxis.
MaxAxis == 3

\* The most residual evaluations the root finder makes in one solve.
MaxEvals == 3

\* Geodetic heights range over -MaxHeight..MaxHeight, and the half-angle
\* tangents of the longitudes over the ratios of 0..MaxHeight.
MaxHeight == 1

\* ----------------------------------------------------- float arithmetic

Abs(i) == IF i < 0 THEN -i ELSE i

Sign(i) == IF i > 0 THEN 1 ELSE IF i < 0 THEN -1 ELSE 0

RECURSIVE GCD(_, _)
GCD(m, n) == IF n = 0 THEN m ELSE GCD(n, m % n)

\* The float n/d, in lowest terms; n/0 is +inf, -inf or NaN by the sign of n.
Q(n, d) ==
  IF d = 0 THEN <<Sign(n), 0>>
  ELSE LET g == GCD(Abs(n), Abs(d))
           s == Sign(d)
       IN  <<(s * n) \div g, (s * d) \div g>>

NaN == <<0, 0>>

PInf == <<1, 0>>

NInf == <<-1, 0>>

FromInt(i) == <<i, 1>>

IsNaN(p) == p = NaN

IsFinite(p) == p[2] # 0

IsZero(p) == p[1] = 0 /\ p[2] # 0

RNeg(p) == <<-p[1], p[2]>>

RAbs(p) == <<Abs(p[1]), p[2]>>

RAdd(p, q) ==
  IF p[2] = 0 /\ q[2] = 0
  THEN (IF p = q THEN p ELSE NaN)
  ELSE Q(p[1] * q[2] + q[1] * p[2], p[2] * q[2])

RSub(p, q) == RAdd(p, RNeg(q))

RMul(p, q) == Q(p[1] * q[1], p[2] * q[2])

\* np.square
RSq(p) == RMul(p, p)

\* 1/q as numpy divides: 1/0 is inf, 1/inf is 0, 1/NaN is NaN.
RRecip(q) ==
  IF q[1] = 0 THEN (IF q[2] = 0 THEN NaN ELSE PInf)
  ELSE IF q[2] = 0 THEN <<0, 1>>
  ELSE Q(q[2] * Sign(q[1]), Abs(q[1]))

\* p/q as numpy divides (no exception: x/0 is +-inf, 0/0 is NaN).
RDiv(p, q) == RMul(p, RRecip(q))

\* p < q; every comparison with NaN is false.
RLt(p, q) ==
  IF IsNaN(p) \/ IsNaN(q) \/ p = q THEN FALSE
  ELSE IF p = NInf \/ q = PInf THEN TRUE
  ELSE IF p = PInf \/ q = NInf THEN FALSE
  ELSE p[1] * q[2] < q[1] * p[2]

IsSquare(n) == n >= 0 /\ \E k \in 0..n : k * k = n

ISqrt(n) == CHOOSE k \in 0..n : k * k = n

\* Whether np.sqrt(p) is a float of the model: p is NaN, infinite, negative
\* or the square of a rational.
HasSqrt(p) == p[2] = 0 \/ p[1] < 0 \/ (IsSquare(p[1]) /\ IsSquare(p[2]))

\* np.sqrt: NaN for a negative argument.
RSqrt(p) ==
  IF IsNaN(p) \/ p[1] < 0 THEN NaN
  ELSE IF p[2] = 0 THEN PInf
  ELSE <<ISqrt(p[1]), ISqrt(p[2])>>

\* mult * np.arctan(t) * (180/np.pi): the angle of tangent t, in degrees.
ArctanDeg(mult, t) == [mult |-> mult, tan |-> t]

\* np.sqrt(q) as a height: the non-negative root of q.
Root(q) == [neg |-> FALSE, sq |-> q]

\* h = -h
NegRoot(h) == [neg |-> ~h.neg, sq |-> h.sq]

\* ------------------------------------------------------------ the program

\* The concurrent callers of the module (threads of one interpreter).
NThreads == 2

Threads == 1..NThreads

VARIABLES
  iters,    \* the module's global counter of residual evaluations
  pc,       \* per caller: "idle" | "eval" | "solver" | "done"
  arg,      \* per caller: the arguments of its running call
  loc,      \* per caller: xyzllh's locals (lambda_1, lambda_2, p_G, z_G, G, H, K, start)
  xk,       \* per caller: the iterate the root finder is at
  fx,       \* per caller: fun's value at xk, as handed to the root finder
  evals,    \* per caller: how many times its solve has called fun
  printed,  \* per caller: how many lines its call has written to the console
  res       \* per caller: how its call ended, and with what

vars == <<iters, pc, arg, loc, xk, fx, evals, printed, res>>

NoArg == [op |-> "none"]

NoLoc == [set |-> FALSE]

NoPoint == <<NaN, NaN>>

NoRes == [status |-> "none"]

\* step3 with its comparison turned round: the height is negated when the
\* original point is the farther one.
step3Reversed(H, p_E, z_E, p_G, z_G) ==
  LET tan_phi == RDiv(RMul(RMul(H, H), z_E), p_E)
      phi     == ArctanDeg(1, tan_phi)
      h       == Root(RAdd(RSq(RSub(p_E, p_G)), RSq(RSub(z_E, z_G))))
  IN  IF RLt(RAdd(p_E, RAbs(z_E)), RAdd(p_G, RAbs(z_G)))
      THEN <<phi, NegRoot(h)>>
      ELSE <<phi, h>>

\* step3(H, p_E, z_E, p_G, z_G) = [phi, h].  p_E is a numpy float at both
\* call sites, so the division never raises.
step3(H, p_E, z_E, p_G, z_G) ==
  LET tan_phi == RDiv(RMul(RMul(H, H), z_E), p_E)
      phi     == ArctanDeg(1, tan_phi)
      h       == Root(RAdd(RSq(RSub(p_E, p_G)), RSq(RSub(z_E, z_G))))
  IN  IF RLt(RAdd(p_G, RAbs(z_G)), RAdd(p_E, RAbs(z_E)))
      THEN <<phi, NegRoot(h)>>
      ELSE <<phi, h>>

\* The residual fun returns at x = (pe, ze): the orthogonality condition and
\* the ellipse equation.
funValue(x, l) ==
  LET pe == x[1]
      ze == x[2]
  IN  << RSub(RMul(RMul(RSub(pe, l.p_G), l.H), ze),
              RMul(RMul(RSub(ze, l.z_G), l.G), pe)),
         RSub(RAdd(RMul(l.G, RMul(pe, pe)), RMul(l.H, RMul(ze, ze))), l.K) >>

\* The starting point with both coordinates scaled by a.
startPointBothA(a, b, p_G, z_G) ==
  LET r == RRecip(RSqrt(RAdd(RMul(p_G, p_G), RMul(z_G, z_G))))
  IN  << RMul(RMul(FromInt(a), p_G), r), RMul(RMul(FromInt(a), z_G), r) >>

\* Starting point for the iteration: (p_G, z_G) scaled onto the ellipse.
startPoint(a, b, p_G, z_G) ==
  LET r == RRecip(RSqrt(RAdd(RMul(p_G, p_G), RMul(z_G, z_G))))
  IN  << RMul(RMul(FromInt(a), p_G), r), RMul(RMul(FromInt(b), z_G), r) >>

\* xyzllh's locals once the root finder is about to be called, for Python
\* numbers a, b (both non-zero) and floats x, y, z.
xyzllhLocals(x, y, z, a, b) ==
  LET w   == RSqrt(RAdd(RMul(x, x), RMul(y, y)))
      p_G == RSqrt(RAdd(RMul(x, x), RMul(y, y)))
  IN  [ set      |-> TRUE,
        lambda_1 |-> ArctanDeg(1, RDiv(y, x)),
        lambda_2 |-> ArctanDeg(2, RDiv(y, RAdd(x, w))),
        p_G      |-> p_G,
        z_G      |-> z,
        G        |-> Q(b, a),
        H        |-> Q(a, b),
        K        |-> FromInt(a * b),
        start    |-> startPoint(a, b, p_G, z) ]

\* Where a call of xyzllh raises before it reaches the root finder:
\* "lambda_1" when y/x divides Python numbers by zero, "G" or "H" when
\* b/a or a/b does, "" when it does not raise.
xyzllhRaises(x, a, b, kind) ==
  IF kind = "py" /\ IsZero(x) THEN "lambda_1"
  ELSE IF a = 0 THEN "G"
  ELSE IF b = 0 THEN "H"
  ELSE ""

\* Cartesian inputs whose square roots the model represents exactly.
Coord == (-MaxCoord)..MaxCoord

XyzInputs ==
  { t \in Coord \X Coord \X Coord :
      /\ IsSquare(t[1] * t[1] + t[2] * t[2])
      /\ IsSquare(t[1] * t[1] + t[2] * t[2] + t[3] * t[3]) }

\* Ellipsoid parameters, well-formed (a >= b > 0) and malformed.
Axes == ((-1)..MaxAxis) \X ((-1)..MaxAxis)

\* The kinds of number a caller passes: Python floats or numpy float64.
Kinds == {"py", "np"}

\* xyzllh up to the call of optimize.root: the counter is reset, the
\* longitudes and the meridian point are computed, and the start is set.
xyzllh_enter(c, t, ab, trace, kind) ==
  LET x == FromInt(t[1])
      y == FromInt(t[2])
      z == FromInt(t[3])
      a == ab[1]
      b == ab[2]
      raises == xyzllhRaises(x, a, b, kind)
      l == xyzllhLocals(x, y, z, a, b)
  IN  /\ pc[c] = "idle"
      /\ iters' = 0
      /\ arg' = [arg EXCEPT ![c] = [op |-> "xyzllh", x |-> x, y |-> y, z |-> z,
                                    a |-> a, b |-> b, trace |-> trace, kind |-> kind]]
      /\ evals' = [evals EXCEPT ![c] = 0]
      /\ fx' = [fx EXCEPT ![c] = NoPoint]
      /\ IF raises # ""
         THEN /\ pc' = [pc EXCEPT ![c] = "done"]
              /\ res' = [res EXCEPT ![c] = [status |-> "ZeroDivisionError", at |-> raises]]
              /\ printed' = [printed EXCEPT ![c] = IF trace /\ raises # "lambda_1" THEN 1 ELSE 0]
              /\ loc' = [loc EXCEPT ![c] = NoLoc]
              /\ xk' = [xk EXCEPT ![c] = NoPoint]
         ELSE /\ pc' = [pc EXCEPT ![c] = "eval"]
              /\ res' = [res EXCEPT ![c] = NoRes]
              /\ printed' = [printed EXCEPT ![c] = IF trace THEN 1 ELSE 0]
              /\ loc' = [loc EXCEPT ![c] = l]
              /\ xk' = [xk EXCEPT ![c] = l.start]

\* One call of fun by the root finder, at its iterate xk: the global counter
\* is incremented, the estimate is printed under trace, the residual returned.
fun(c) ==
  LET s3 == step3(loc[c].H, xk[c][1], xk[c][2], loc[c].p_G, loc[c].z_G)
  IN  /\ pc[c] = "eval"
      /\ iters' = iters + 1
      /\ evals' = [evals EXCEPT ![c] = @ + 1]
      /\ printed' = [printed EXCEPT ![c] = IF arg[c].trace THEN @ + 1 ELSE @]
      /\ fx' = [fx EXCEPT ![c] = funValue(xk[c], loc[c])]
      /\ pc' = [pc EXCEPT ![c] = "solver"]
      /\ UNCHANGED <<arg, loc, xk, res>>

\* optimize.root's termination test: the residual has vanished.
Converged(f) == IsZero(f[1]) /\ IsZero(f[2])

\* optimize.root gives up after this many evaluations (its iteration cap).
SolverStops(c) == Converged(fx[c]) \/ evals[c] >= MaxEvals

\* The iterates the root finder may move to: the start, the ellipse's four
\* vertices and its centre; from a NaN iterate every step is NaN again.
Iterates(c) ==
  IF IsNaN(xk[c][1]) \/ IsNaN(xk[c][2]) THEN {xk[c]}
  ELSE { loc[c].start,
         <<FromInt(arg[c].a), FromInt(0)>>, <<FromInt(-arg[c].a), FromInt(0)>>,
         <<FromInt(0), FromInt(arg[c].b)>>, <<FromInt(0), FromInt(-arg[c].b)>>,
         <<FromInt(0), FromInt(0)>> }

\* optimize.root moves to its next iterate.
solverStep(c, nx) ==
  /\ pc[c] = "solver"
  /\ ~SolverStops(c)
  /\ nx \in Iterates(c)
  /\ xk' = [xk EXCEPT ![c] = nx]
  /\ pc' = [pc EXCEPT ![c] = "eval"]
  /\ UNCHANGED <<iters, arg, loc, fx, evals, printed, res>>

\* xyzllh from the return of optimize.root: the root is taken from the
\* result's .x, printed, converted by step3 and returned with the counter.
xyzllh_finish(c) ==
  LET root  == xk[c]
      toret == step3(loc[c].H, root[1], root[2], loc[c].p_G, loc[c].z_G)
  IN  /\ pc[c] = "solver"
      /\ SolverStops(c)
      /\ printed' = [printed EXCEPT ![c] = IF arg[c].trace THEN @ + 4 ELSE @ + 1]
      /\ res' = [res EXCEPT ![c] = [status  |-> "returned",
                                    val     |-> <<toret[1], loc[c].lambda_2, toret[2], iters>>,
                                    success |-> Converged(fx[c])]]
      /\ pc' = [pc EXCEPT ![c] = "done"]
      /\ UNCHANGED <<iters, arg, loc, xk, fx, evals>>

\* The caller takes the outcome of its call and may call again.
callerContinues(c) ==
  /\ pc[c] = "done"
  /\ pc' = [pc EXCEPT ![c] = "idle"]
  /\ arg' = [arg EXCEPT ![c] = NoArg]
  /\ loc' = [loc EXCEPT ![c] = NoLoc]
  /\ xk' = [xk EXCEPT ![c] = NoPoint]
  /\ fx' = [fx EXCEPT ![c] = NoPoint]
  /\ evals' = [evals EXCEPT ![c] = 0]
  /\ printed' = [printed EXCEPT ![c] = 0]
  /\ res' = [res EXCEPT ![c] = NoRes]
  /\ UNCHANGED iters

\* np.sin and np.cos of a symbolic angle: of arctan(t) by the right triangle
\* of legs 1 and t, of 2*arctan(t) by the half-angle formulas.
SinDeg(ang) ==
  LET t == ang.tan
  IN  IF IsNaN(t) THEN NaN
      ELSE IF ang.mult = 1
      THEN (IF ~IsFinite(t) THEN FromInt(t[1])
            ELSE RDiv(t, RSqrt(RAdd(FromInt(1), RSq(t)))))
      ELSE (IF ~IsFinite(t) THEN FromInt(0)
            ELSE RDiv(RMul(FromInt(2), t), RAdd(FromInt(1), RSq(t))))

CosDeg(ang) ==
  LET t == ang.tan
  IN  IF IsNaN(t) THEN NaN
      ELSE IF ang.mult = 1
      THEN (IF ~IsFinite(t) THEN FromInt(0)
            ELSE RRecip(RSqrt(RAdd(FromInt(1), RSq(t)))))
      ELSE (IF ~IsFinite(t) THEN FromInt(-1)
            ELSE RDiv(RSub(FromInt(1), RSq(t)), RAdd(FromInt(1), RSq(t))))

\* 1 - e_2 * sin(lat)^2, whose root divides a in llhxyz (a # 0).
llhxyzRadicand(lat, a, b) ==
  LET e_2 == RSub(FromInt(1), RSq(Q(b, a)))
  IN  RSub(FromInt(1), RMul(e_2, RSq(SinDeg(lat))))

\* llhxyz(lat, long, h, a, b) = (x, y, z), for a # 0.
llhxyzValue(lat, long, h, a, b) ==
  LET e_2 == RSub(FromInt(1), RSq(Q(b, a)))
      N   == RDiv(FromInt(a), RSqrt(llhxyzRadicand(lat, a, b)))
      Nh  == RAdd(N, FromInt(h))
  IN  << RMul(RMul(Nh, CosDeg(lat)), CosDeg(long)),
         RMul(RMul(Nh, CosDeg(lat)), SinDeg(long)),
         RMul(RAdd(RMul(RSub(FromInt(1), e_2), N), FromInt(h)), SinDeg(lat)) >>

\* Latitudes arctan(n/d) whose sine and cosine are rational.
Latitudes ==
  { ArctanDeg(1, Q(t[1], t[2])) :
      t \in { u \in Coord \X (1..MaxCoord) : IsSquare(u[1] * u[1] + u[2] * u[2]) } }

\* Longitudes 2*arctan(n/d): 0, +-90 and +-180 degrees, and more as MaxHeight grows.
Longitudes ==
  { ArctanDeg(2, Q(n, d)) : n \in (-MaxHeight)..MaxHeight, d \in 0..MaxHeight } \ { ArctanDeg(2, NaN) }

Heights == (-MaxHeight)..MaxHeight

\* Geodetic inputs whose square roots the model represents exactly.
LlhInputs ==
  { i \in Latitudes \X Longitudes \X Heights \X Axes :
      i[4][1] = 0 \/ HasSqrt(llhxyzRadicand(i[1], i[4][1], i[4][2])) }

\* A whole call of llhxyz: b/a divides Python numbers, the rest is numpy's.
llhxyz(c, i) ==
  LET a == i[4][1]
      b == i[4][2]
  IN  /\ pc[c] = "idle"
      /\ arg' = [arg EXCEPT ![c] = [op |-> "llhxyz", lat |-> i[1], long |-> i[2], h |-> i[3],
                                    a |-> a, b |-> b, trace |-> FALSE, kind |-> "py"]]
      /\ res' = [res EXCEPT ![c] =
                   IF a = 0 THEN [status |-> "ZeroDivisionError", at |-> "e_2"]
                   ELSE [status |-> "returned", val |-> llhxyzValue(i[1], i[2], i[3], a, b)]]
      /\ pc' = [pc EXCEPT ![c] = "done"]
      /\ UNCHANGED <<iters, loc, xk, fx, evals, printed>>

Init ==
  /\ iters = 0
  /\ pc = [c \in Threads |-> "idle"]
  /\ arg = [c \in Threads |-> NoArg]
  /\ loc = [c \in Threads |-> NoLoc]
  /\ xk = [c \in Threads |-> NoPoint]
  /\ fx = [c \in Threads |-> NoPoint]
  /\ evals = [c \in Threads |-> 0]
  /\ printed = [c \in Threads |-> 0]
  /\ res = [c \in Threads |-> NoRes]

\* A caller calls xyzllh.
xyzllh_call(c, inputs, axes, traces, kinds) ==
  /\ pc[c] = "idle"
  /\ \E t \in inputs, ab \in axes, trace \in traces, kind \in kinds :
       xyzllh_enter(c, t, ab, trace, kind)

\* A caller calls llhxyz.
llhxyz_call(c) ==
  /\ pc[c] = "idle"
  /\ \E i \in LlhInputs : llhxyz(c, i)

\* optimize.root moves on.
solverMoves(c) ==
  /\ pc[c] = "solver"
  /\ \E nx \in Iterates(c) : solverStep(c, nx)

\* One caller, as in the module's own driver: calls follow one another.
Next ==
  \/ xyzllh_call(1, XyzInputs, Axes, BOOLEAN, Kinds)
  \/ fun(1)
  \/ solverMoves(1)
  \/ xyzllh_finish(1)
  \/ llhxyz_call(1)
  \/ callerContinues(1)

Spec == Init /\ [][Next]_vars

\* Two callers converting points at the same time (threads of one
\* interpreter), on a few exterior points and well-formed ellipsoids.
ConcInputs == { t \in XyzInputs : t[1] = MaxCoord - 1 /\ t[2] = 0 /\ t[3] >= 0 }

ConcAxes == { ab \in Axes : ab[1] = MaxAxis - 1 /\ ab[2] \in {MaxAxis - 2, MaxAxis - 1} }

NextConc ==
  \E c \in Threads :
    \/ xyzllh_call(c, ConcInputs, ConcAxes, {FALSE}, {"np"})
    \/ fun(c)
    \/ solverMoves(c)
    \/ xyzllh_finish(c)
    \/ callerContinues(c)

SpecConc == Init /\ [][NextConc]_vars

\* ------------------------------------------------------------- the claims

IsXyzllh(c) == arg[c].op = "xyzllh"

Returned(c) == pc[c] = "done" /\ res[c].status = "returned"

WellFormed(a, b) == a >= b /\ b > 0

FinitePoint(x) == IsFinite(x[1]) /\ IsFinite(x[2])

\* 2 * atan2(y, d) in degrees: the angle of the point (d, y), which for d >= 0
\* is arctan(y/d), with atan2(0, 0) = 0.
TwiceAtan2Deg(y, d) ==
  IF RLt(FromInt(0), d) THEN ArctanDeg(2, RDiv(y, d))
  ELSE IF IsZero(d) THEN ArctanDeg(2, IF RLt(FromInt(0), y) THEN PInf
                                      ELSE IF RLt(y, FromInt(0)) THEN NInf
                                      ELSE FromInt(0))
  ELSE [mult |-> 2, tan |-> RDiv(y, d), plus |-> IF RLt(y, FromInt(0)) THEN -180 ELSE 180]

\* The height -sqrt(q) with q > 0.
IsNegativeRoot(h) == h.neg /\ RLt(FromInt(0), h.sq)

\* The height sqrt(q) with q >= 0.
IsNonNegativeRoot(h) == ~h.neg /\ IsFinite(h.sq) /\ h.sq[1] >= 0

\* C2: a call of xyzllh on a degenerate input, x = y = 0 (the centre of the
\* ellipsoid included), of a well-formed ellipsoid ends in an error and
\* returns no result tuple.
C2_DegenerateInputNeverReturns ==
  \A c \in Threads :
    ( /\ pc[c] = "done" /\ IsXyzllh(c) /\ WellFormed(arg[c].a, arg[c].b)
      /\ IsZero(arg[c].x) /\ IsZero(arg[c].y) )
      => res[c].status # "returned"

\* C3: xyzllh returns no result computed from a solve that did not converge:
\* a tuple returned for a well-formed ellipsoid comes from a root the root
\* finder reported as converged.
C3_NoResultFromUnconvergedSolve ==
  \A c \in Threads :
    (Returned(c) /\ IsXyzllh(c) /\ WellFormed(arg[c].a, arg[c].b)) => res[c].success

\* C4: the iteration count a call of xyzllh returns is the number of residual
\* evaluations made by that call alone, whatever other calls run meanwhile.
C4_IterationCountIsOwn ==
  \A c \in Threads :
    (Returned(c) /\ IsXyzllh(c)) => res[c].val[4] = evals[c]

\* C6: a call of xyzllh or llhxyz with a malformed ellipsoid (not a >= b > 0)
\* ends in an error and returns no coordinates.
C6_MalformedEllipsoidRejected ==
  \A c \in Threads :
    (pc[c] = "done" /\ ~WellFormed(arg[c].a, arg[c].b)) => res[c].status # "returned"

\* C7: for x, y not both zero and a well-formed ellipsoid, the longitude
\* xyzllh returns is the half-angle value 2*atan2(y, x + w) in degrees,
\* w = sqrt(x^2 + y^2), and never NaN.
C7_LongitudeIsHalfAngle ==
  \A c \in Threads :
    ( /\ Returned(c) /\ IsXyzllh(c) /\ WellFormed(arg[c].a, arg[c].b)
      /\ ~(IsZero(arg[c].x) /\ IsZero(arg[c].y)) )
      => /\ res[c].val[2] = TwiceAtan2Deg(arg[c].y, RAdd(arg[c].x, loc[c].p_G))
         /\ ~IsNaN(res[c].val[2].tan)

\* C8: for a meridian point (p_G, z_G) and a finite point (p_E, z_E) the root
\* finder is at, the height step3 gives (and xyzllh returns) is negative exactly when
\* p_G + |z_G| < p_E + |z_E| and non-negative otherwise, and its magnitude is
\* sqrt((p_E - p_G)^2 + (z_E - z_G)^2).
C8_HeightSign ==
  \A c \in Threads :
    (IsXyzllh(c) /\ loc[c].set /\ FinitePoint(xk[c]))
      => LET p_E == xk[c][1]
             z_E == xk[c][2]
             p_G == loc[c].p_G
             z_G == loc[c].z_G
             h   == IF Returned(c) THEN res[c].val[3]
                    ELSE step3(loc[c].H, p_E, z_E, p_G, z_G)[2]
             inside == RLt(RAdd(p_G, RAbs(z_G)), RAdd(p_E, RAbs(z_E)))
         IN  /\ IsNegativeRoot(h) <=> inside
             /\ ~inside => IsNonNegativeRoot(h)
             /\ h.sq = RAdd(RSq(RSub(p_E, p_G)), RSq(RSub(z_E, z_G)))

\* C8's case: a call on a non-spherical well-formed ellipsoid has returned a
\* negative height from a converged solve.
C8_Witness ==
  \E c \in Threads :
    /\ Returned(c) /\ IsXyzllh(c) /\ FinitePoint(xk[c])
    /\ IsNegativeRoot(res[c].val[3])
    /\ res[c].success
    /\ arg[c].a > arg[c].b /\ arg[c].b > 0

\* C9: a call of xyzllh with trace disabled (on a well-formed ellipsoid)
\* writes nothing to the console.
C9_NoOutputWithoutTrace ==
  \A c \in Threads :
    (IsXyzllh(c) /\ WellFormed(arg[c].a, arg[c].b) /\ ~arg[c].trace) => printed[c] = 0

\* C10: for a well-formed ellipsoid and a meridian point other than (0, 0),
\* the starting point satisfies G*p_start^2 + H*z_start^2 = K.
C10_StartOnEllipse ==
  \A c \in Threads :
    ( /\ IsXyzllh(c) /\ loc[c].set
      /\ WellFormed(arg[c].a, arg[c].b)
      /\ ~(IsZero(loc[c].p_G) /\ IsZero(loc[c].z_G)) )
      => LET p_start == loc[c].start[1]
             z_start == loc[c].start[2]
         IN  RAdd(RMul(loc[c].G, RSq(p_start)), RMul(loc[c].H, RSq(z_start))) = loc[c].K

\* C10's case: a start computed for a point off both axes of a non-spherical
\* well-formed ellipsoid.
C10_Witness ==
  \E c \in Threads :
    /\ IsXyzllh(c) /\ loc[c].set
    /\ arg[c].a > arg[c].b /\ arg[c].b > 0
    /\ ~IsZero(loc[c].p_G) /\ ~IsZero(loc[c].z_G)
    /\ pc[c] = "solver"

====
